---- MODULE Spec2Model ----
(***************************************************************************)
(* Service-provider lifecycle engine of adele-framework (package provider). *)
(* The process-wide registry globalProviders, one loader (a Provider) with  *)
(* its EnabledProviders / ProviderConfigs maps, and LoadProviders run step  *)
(* by step: snapshot and sort, one step per iteration of the register loop, *)
(* one step per iteration of the boot loop, and the final return.           *)
(* Provider callbacks (Configure, Register, Boot) are external code: what   *)
(* they return is chosen when they are called.  calls is the sequence of    *)
(* provider callbacks observed during the load, as a call-tracking mock     *)
(* would record it.                                                         *)
(***************************************************************************)
EXTENDS Integers, Sequences, FiniteSets, TLC

VARIABLES
    globalProviders,      \* var globalProviders []ServiceProvider
    panicked,             \* a RegisterGlobalProvider call panicked and is not yet recovered
    registerArgs,         \* the providers passed to RegisterGlobalProvider so far, in call order
    optionalOf,           \* per name: what kind of OptionalProvider the registered provider is
    returned,             \* the slice a caller of GetRegisteredProviders holds
    callerOps,            \* number of changes the caller made to that slice
    EnabledProviders,     \* Provider.EnabledProviders  map[string]bool
    ProviderConfigs,      \* Provider.ProviderConfigs   map[string]map[string]interface{}
    storeCalls,           \* number of SetProviderEnabled / SetProviderConfig calls so far
    lastEnabled,          \* per name: the argument of the latest SetProviderEnabled call
    lastConfig,           \* per name: the argument of the latest SetProviderConfig call
    pc,                   \* position of LoadProviders: "idle", "register", "boot", "returned"
    providers,            \* LoadProviders local: the snapshot of the registry
    withPriority,         \* sortProvidersByPriority local: (provider, priority) pairs, sorted
    queries,              \* what sortProvidersByPriority asked of providers and payloads
    sortedProviders,      \* LoadProviders local
    registeredProviders,  \* LoadProviders local
    idx,                  \* index of the next element of the running range loop (1-based)
    calls,                \* provider callbacks invoked by the load, in order
    result,               \* what LoadProviders returned: NoError (nil) or a wrapped error
    reloaded,             \* LoadProviders was called a second time on the same loader
    prevCalls,            \* the callbacks invoked by the first of two loads
    prevResult,           \* what the first of two loads returned
    startEnabled,         \* EnabledProviders as it stood when LoadProviders was called
    startConfigs,         \* ProviderConfigs as it stood when LoadProviders was called
    otherEnabled,         \* EnabledProviders of a second loader (another Provider value)
    otherConfigs,         \* ProviderConfigs of the second loader
    threads               \* two goroutines inside RegisterGlobalProvider, and what they hold

vars == <<globalProviders, panicked, registerArgs, optionalOf, returned, callerOps, EnabledProviders, ProviderConfigs, storeCalls,
          lastEnabled, lastConfig, pc, providers, withPriority, queries, sortedProviders,
          registeredProviders, idx, calls, result, reloaded, prevCalls, prevResult,
          startEnabled, startConfigs, otherEnabled, otherConfigs, threads>>

registryVars == <<globalProviders, panicked, registerArgs, optionalOf, returned, callerOps, threads>>
otherVars == <<otherEnabled, otherConfigs>>
storeVars == <<EnabledProviders, ProviderConfigs, storeCalls, lastEnabled, lastConfig, otherVars>>
runVars == <<reloaded, prevCalls, prevResult>>
startVars == <<startEnabled, startConfigs>>
loadVars == <<pc, providers, withPriority, queries, sortedProviders, registeredProviders,
              idx, calls, result, runVars, startVars>>

----------------------------------------------------------------------------
(* Bounds and input domains *)

\* cap on the number of SetProviderEnabled / SetProviderConfig calls of one behaviour
MaxStoreCalls == 1

\* cap on the same calls in the runs of the loader's maps alone
MaxSetCalls == 3

\* caps of the registry runs: RegisterGlobalProvider calls, and changes a caller makes to
\* the slice GetRegisteredProviders returned
MaxRegisterCalls == 4
MaxCallerOps == 2

\* priority := 100 // default priority
DefaultPriority == 100

Names == {"a", "b", "c"}

\* values a provider's Priority() returns
DeclaredPriorities == {50}

\* what a provider callback returns: an error (nil is NoError), or IsOptional()'s bool
NoError == "nil"
Errors == {"failed", "refused"}
BoolValue(b) == IF b THEN "true" ELSE "false"

\* interface{} values stored under a config key: an int, or a value of another type
IntValue(n) == [type |-> "int", val |-> n]
StringValue(n) == [type |-> "string", val |-> n]

\* map[string]interface{} values: the nil map, or a map given by its key/value pairs
NilMap == [isNil |-> TRUE, m |-> [k \in {} |-> IntValue(0)]]
MapOf(keys, v) == [isNil |-> FALSE, m |-> [k \in keys |-> v]]
EmptyMap == MapOf({}, IntValue(0))

\* payloads handed to SetProviderConfig: nil, {}, {"priority": 10}, {"priority": 150} and
\* {"priority": "10"} (a priority that is not an int)
ConfigValues ==
    {NilMap, EmptyMap, MapOf({"priority"}, IntValue(10)), MapOf({"priority"}, IntValue(150)),
     MapOf({"priority"}, StringValue(10))}

\* the empty Go map (make(map[string]...))
EmptyGoMap == [k \in {} |-> FALSE]

\* a store that replaces the map by one holding the new entry alone
MapSetAlone(f, k, v) == [x \in {k} |-> v]

\* m[k] = v
MapSet(f, k, v) == [x \in (DOMAIN f) \cup {k} |-> IF x = k THEN v ELSE f[x]]

\* A provider value: its Name(), which of PriorityProvider and ConfigurableProvider its
\* type implements, and the priority it declares.  What Configure, Register and Boot
\* return is decided by the provider when the loader calls them, and so is the answer to
\* "optional, ok := prov.(OptionalProvider); ok && optional.IsOptional()", which the
\* loader asks only after a failed Boot.
Capabilities == {"Priority", "Configure"}
ProviderValues ==
    { [name |-> n, caps |-> c, priority |-> p] :
        n \in Names, c \in SUBSET Capabilities, p \in DeclaredPriorities \cup {0} }

\* a provider without Priority() carries the zero value in the unused field
Providers ==
    {p \in ProviderValues : ("Priority" \in p.caps) <=> (p.priority \in DeclaredPriorities)}

\* Names are interchangeable labels (the code only compares them): the registry is built
\* with new names taken in a fixed order, so the first unused name is the only new name
\* offered to RegisterGlobalProvider, next to the names already registered.  With three
\* names the registry holds at most three providers.
NameOrder == <<"a", "b", "c">>
FreshNames(registry) ==
    {NameOrder[i] : i \in {j \in 1..Len(NameOrder) : j = Len(registry) + 1}}

\* the names passed to RegisterGlobalProvider: the first unused one and those in use
OfferedNames(registry) ==
    FreshNames(registry) \cup {registry[i].name : i \in 1..Len(registry)}

\* the registry compares names only: the registry runs register providers of two kinds
RegistryProviders == {p \in Providers : "Configure" \notin p.caps}

\* the runs with two loads, and those with declared kinds of OptionalProvider, register
\* providers of two kinds: with neither capability, and with both (as the test mock)
PlainOrFullProviders == {p \in Providers : p.caps = {} \/ p.caps = Capabilities}

\* what a caller stores into, or appends to, the slice it got
CallerValues == {p \in RegistryProviders : p.name = NameOrder[Len(NameOrder)]}

\* how a provider stands to OptionalProvider: its type has no IsOptional(), or its
\* IsOptional() returns true, or false.  Undeclared leaves this open until the loader asks.
Undeclared == "undeclared"
OptionalKinds == {"none", "true", "false"}

\* a slice value: its elements, and whether its backing array is the registry's
Slice(shared, elems) == [shared |-> shared, elems |-> elems]
\* two goroutines that may each call RegisterGlobalProvider once.  Per goroutine: where
\* it is ("out": not called yet, "range": before the loop of lines 10-14, "append":
\* before line 16 reads globalProviders, "store": before line 16 assigns it, "done",
\* "panic"), its argument, the slice value line 16 read, and whether its call was ever
\* in progress at the same time as the other goroutine's
ThreadIds == {1, 2}
OtherThread(t) == 3 - t
NoProvider == [name |-> "", caps |-> {}, priority |-> 0]
NoThreads ==
    [t \in ThreadIds |-> [at |-> "out", arg |-> NoProvider, seen |-> << >>, overlap |-> FALSE]]
Inside == {"range", "append", "store"}

NilSlice == Slice(FALSE, << >>)

----------------------------------------------------------------------------
(* provider.go *)

\* the duplicate check looking at the last registered provider only
NameRegisteredLastOnly(registry, name) ==
    Len(registry) > 0 /\ registry[Len(registry)].name = name

\* for _, p := range globalProviders { if p.Name() == provider.Name() { panic } }
NameRegistered(registry, name) ==
    \E i \in 1..Len(registry) : registry[i].name = name

\* IsProviderEnabled returning "exists" where it should return the stored flag
IsProviderEnabledKeyOnly(enabled, name) ==
    IF name \notin DOMAIN enabled THEN TRUE ELSE name \in DOMAIN enabled

\* IsProviderEnabled with the default turned around: a name without entry is disabled
IsProviderEnabledDefaultOff(enabled, name) ==
    IF name \notin DOMAIN enabled THEN FALSE ELSE enabled[name]

IsProviderEnabled(enabled, name) ==
    IF name \notin DOMAIN enabled THEN TRUE ELSE enabled[name]

\* p.ProviderConfigs[name]: the nil map when the key is absent
\* GetProviderConfig answering a missing key with an empty, non-nil map
GetProviderConfigEmptyDefault(configs, name) ==
    IF name \in DOMAIN configs THEN configs[name] ELSE EmptyMap

GetProviderConfig(configs, name) ==
    IF name \in DOMAIN configs THEN configs[name] ELSE NilMap

\* customPriority, ok := config["priority"].(int)
HasIntPriority(config) ==
    /\ "priority" \in DOMAIN config.m
    /\ config.m["priority"].type = "int"

\* the resolution with the provider's declared priority taking precedence over the config
resolvePriorityDeclaredFirst(prov, configs) ==
    LET config == GetProviderConfig(configs, prov.name) IN
    IF "Priority" \in prov.caps THEN prov.priority
    ELSE IF ~config.isNil /\ HasIntPriority(config) THEN config.m["priority"].val
    ELSE DefaultPriority

\* the resolution without the "else if" of the config branch: a payload without an int
\* priority leaves the default in place
resolvePriorityNoFallback(prov, configs) ==
    LET config == GetProviderConfig(configs, prov.name) IN
    IF ~config.isNil
    THEN IF HasIntPriority(config) THEN config.m["priority"].val ELSE DefaultPriority
    ELSE IF "Priority" \in prov.caps THEN prov.priority
    ELSE DefaultPriority

\* the resolution with priority declared as "var priority int" (zero) instead of 100
resolvePriorityZeroDefault(prov, configs) ==
    LET config == GetProviderConfig(configs, prov.name) IN
    IF ~config.isNil /\ HasIntPriority(config) THEN config.m["priority"].val
    ELSE IF "Priority" \in prov.caps THEN prov.priority
    ELSE DefaultPriority - DefaultPriority

\* the body of the first loop of sortProvidersByPriority
resolvePriority(prov, configs) ==
    LET config == GetProviderConfig(configs, prov.name) IN
    IF ~config.isNil
    THEN IF HasIntPriority(config) THEN config.m["priority"].val
         ELSE IF "Priority" \in prov.caps THEN prov.priority
         ELSE DefaultPriority
    ELSE IF "Priority" \in prov.caps THEN prov.priority
    ELSE DefaultPriority

\* the inner loop comparing with "<": the sort comes out descending
RECURSIVE insertKeyDescending(_, _, _)
insertKeyDescending(wp, j, key) ==
    IF j >= 1 /\ wp[j].priority < key.priority
    THEN insertKeyDescending([wp EXCEPT ![j + 1] = wp[j]], j - 1, key)
    ELSE [wp EXCEPT ![j + 1] = key]

\* the inner loop comparing with ">=": equal priorities are swapped
RECURSIVE insertKeyUnstable(_, _, _)
insertKeyUnstable(wp, j, key) ==
    IF j >= 1 /\ wp[j].priority >= key.priority
    THEN insertKeyUnstable([wp EXCEPT ![j + 1] = wp[j]], j - 1, key)
    ELSE [wp EXCEPT ![j + 1] = key]

\* the inner loop without its shift: the key is stored over the element it should
\* have moved up
RECURSIVE insertKeyNoShift(_, _, _)
insertKeyNoShift(wp, j, key) ==
    IF j >= 1 /\ wp[j].priority > key.priority
    THEN insertKeyNoShift(wp, j - 1, key)
    ELSE [wp EXCEPT ![j + 1] = key]

\* for j >= 0 && withPriority[j].priority > key.priority { ...; j-- }; withPriority[j+1] = key
RECURSIVE insertKey(_, _, _)
insertKey(wp, j, key) ==
    IF j >= 1 /\ wp[j].priority > key.priority
    THEN insertKey([wp EXCEPT ![j + 1] = wp[j]], j - 1, key)
    ELSE [wp EXCEPT ![j + 1] = key]

\* for i := 1; i < len(withPriority); i++ { key := withPriority[i]; j := i - 1; ... }
RECURSIVE insertionSort(_, _)
insertionSort(wp, i) ==
    IF i <= Len(wp) THEN insertionSort(insertKey(wp, i - 1, wp[i]), i + 1) ELSE wp

\* one question asked while a priority is resolved: config["priority"] looked up in the
\* payload of the provider called name, or Priority() called on that provider
Query(op, name) == [op |-> op, name |-> name]

\* what the body of the first loop of sortProvidersByPriority asks for prov: the key
\* "priority" of a payload that is not nil, and pp.Priority() when that gave no int
resolveQueries(prov, configs) ==
    LET config == GetProviderConfig(configs, prov.name) IN
    (IF ~config.isNil THEN {Query("config[priority]", prov.name)} ELSE {})
    \cup
    (IF "Priority" \in prov.caps /\ ~(~config.isNil /\ HasIntPriority(config))
     THEN {Query("Priority", prov.name)} ELSE {})

\* for _, prov := range providers { ... } over the slice handed to the sort
priorityQueries(provs, configs) ==
    UNION {resolveQueries(provs[i], configs) : i \in 1..Len(provs)}

\* the (provider, priority) pairs of sortProvidersByPriority after its sort
sortWithPriority(provs, configs) ==
    insertionSort([i \in 1..Len(provs) |->
                     [provider |-> provs[i], priority |-> resolvePriority(provs[i], configs)]],
                  2)

sortProvidersByPriority(provs, configs) ==
    LET wp == sortWithPriority(provs, configs) IN [i \in 1..Len(wp) |-> wp[i].provider]

\* a loader that drops the error of Configure and Register
callFailsNever(err) == FALSE

\* if err := configurable.Configure(config); err != nil  /  prov.Register(app); err != nil
callFails(err) == err # NoError

\* a loader that hands whatever GetProviderConfig returned to Configure, nil included
configureAppliesAnyPayload(prov, config) == "Configure" \in prov.caps

\* configurable, ok := prov.(ConfigurableProvider); ok, and config != nil
configureApplies(prov, config) == "Configure" \in prov.caps /\ ~config.isNil

\* a loader that asks IsOptional() after every Boot, failed or not
consultsOptionalAlways(err) == TRUE

\* if err := prov.Boot(app); err != nil { if optional, ok := prov.(OptionalProvider); ...
consultsOptional(err) == err # NoError

\* a loader that goes on after every Boot failure
bootAbortsNever(err, optional) == FALSE

\* a loader that returns on every Boot failure, whatever IsOptional() says
bootAbortsAlways(err, optional) == err # NoError

\* Boot failed and not (optional, ok := prov.(OptionalProvider); ok && optional.IsOptional())
bootAborts(err, optional) == err # NoError /\ ~optional

\* one observed callback: the method, the provider's Name(), the argument, the value returned
Call(op, name, arg, ret) == [op |-> op, name |-> name, arg |-> arg, ret |-> ret]

\* fmt.Errorf without the %w verb: the provider is named, the cause is lost
WrappedErrorNoCause(stage, name, cause) == [stage |-> stage, name |-> name, cause |-> NoError]

\* fmt.Errorf("failed to <stage> provider '%s': %w", prov.Name(), err)
WrappedError(stage, name, cause) == [stage |-> stage, name |-> name, cause |-> cause]
NoResult == WrappedError("none", "", NoError)
NilResult == WrappedError("nil", "", NoError)

----------------------------------------------------------------------------
Init ==
    /\ globalProviders = << >>
    /\ panicked = FALSE
    /\ registerArgs = << >>
    /\ optionalOf = [n \in Names |-> Undeclared]
    /\ returned = NilSlice
    /\ callerOps = 0
    /\ EnabledProviders = EmptyGoMap
    /\ ProviderConfigs = EmptyGoMap
    /\ storeCalls = 0
    /\ lastEnabled = [n \in Names |-> "unset"]
    /\ lastConfig = [n \in Names |-> [set |-> FALSE, value |-> NilMap]]
    /\ pc = "idle"
    /\ providers = << >>
    /\ withPriority = << >>
    /\ queries = {}
    /\ sortedProviders = << >>
    /\ registeredProviders = << >>
    /\ idx = 0
    /\ calls = << >>
    /\ result = NoResult
    /\ reloaded = FALSE
    /\ prevCalls = << >>
    /\ prevResult = NoResult
    /\ startEnabled = EmptyGoMap
    /\ startConfigs = EmptyGoMap
    /\ otherEnabled = EmptyGoMap
    /\ otherConfigs = EmptyGoMap
    /\ threads = NoThreads

\* RegisterGlobalProvider appending before it looks for the name
RegisterGlobalProviderAppendFirst(provider) ==
    /\ ~panicked
    /\ globalProviders' = Append(globalProviders, provider)
    /\ panicked' = NameRegistered(globalProviders, provider.name)
    /\ UNCHANGED <<returned, callerOps, threads, storeVars, loadVars>>

\* RegisterGlobalProvider(provider), called during process initialisation or, in
\* NextReentrant, by a provider callback while a load runs.  registerArgs is the caller's
\* record of its calls and optionalOf the kind of the provider: both are kept where the
\* action is used.
RegisterGlobalProvider(provider) ==
    /\ ~panicked
    /\ IF NameRegistered(globalProviders, provider.name)
       THEN /\ panicked' = TRUE
            /\ UNCHANGED globalProviders
       ELSE /\ globalProviders' = Append(globalProviders, provider)
            /\ UNCHANGED panicked
    /\ UNCHANGED <<returned, callerOps, threads, storeVars, loadVars>>

\* goroutine t calls RegisterGlobalProvider(provider)
RegisterEnter(t, provider) ==
    /\ ~panicked
    /\ threads[t].at = "out"
    /\ LET both == threads[OtherThread(t)].at \in Inside IN
       threads' = [threads EXCEPT ![t].at = "range", ![t].arg = provider,
                                  ![t].overlap = both,
                                  ![OtherThread(t)].overlap = @ \/ both]
    /\ UNCHANGED <<globalProviders, panicked, registerArgs, optionalOf, returned, callerOps,
                   storeVars, loadVars>>

\* goroutine t runs the loop of lines 10-14 over the registry as it is now
RegisterRange(t) ==
    /\ threads[t].at = "range"
    /\ threads' = [threads EXCEPT ![t].at =
                      IF NameRegistered(globalProviders, threads[t].arg.name)
                      THEN "panic" ELSE "append"]
    /\ UNCHANGED <<globalProviders, panicked, registerArgs, optionalOf, returned, callerOps,
                   storeVars, loadVars>>

\* goroutine t evaluates the operands of append in line 16: it reads globalProviders
RegisterAppendRead(t) ==
    /\ threads[t].at = "append"
    /\ threads' = [threads EXCEPT ![t].at = "store", ![t].seen = globalProviders]
    /\ UNCHANGED <<globalProviders, panicked, registerArgs, optionalOf, returned, callerOps,
                   storeVars, loadVars>>

\* an interface value written by two goroutines at once: the method table of one, the
\* data of the other
Torn(a, b) == [name |-> b.name, caps |-> a.caps, priority |-> b.priority]

\* what line 16 can leave in the registry when goroutine t stores the slice it built
\* from the value it read.  Nothing orders the two goroutines: when the other one has
\* stored in between, t's store replaces that result (the other append is lost), and the
\* slot both wrote may hold a torn value.
StoreOutcomes(t) ==
    LET seen == threads[t].seen
        arg == threads[t].arg
    IN {Append(seen, arg)} \cup
       (IF Len(globalProviders) > Len(seen)
        THEN {Append(seen, Torn(globalProviders[Len(seen) + 1], arg)),
              Append(seen, Torn(arg, globalProviders[Len(seen) + 1]))}
        ELSE {})

\* goroutine t assigns globalProviders in line 16 and returns
RegisterAppendStore(t) ==
    /\ threads[t].at = "store"
    /\ globalProviders' \in StoreOutcomes(t)
    /\ threads' = [threads EXCEPT ![t].at = "done"]
    /\ UNCHANGED <<panicked, registerArgs, optionalOf, returned, callerOps, storeVars, loadVars>>

\* the caller recovers the panic (defer func() { recover() }()), the process goes on
Recover ==
    /\ panicked
    /\ panicked' = FALSE
    /\ UNCHANGED <<globalProviders, registerArgs, optionalOf, threads, returned, callerOps, storeVars, loadVars>>

\* GetRegisteredProviders handing out the registry slice itself
getRegisteredProvidersAlias(registry) == Slice(TRUE, registry)

\* GetRegisteredProviders with make([]ServiceProvider, 0): copy has no room and copies nothing
getRegisteredProvidersNoRoom(registry) == Slice(FALSE, << >>)

\* providers := make([]ServiceProvider, len(globalProviders)); copy(providers, globalProviders)
getRegisteredProviders(registry) ==
    Slice(FALSE, [i \in 1..Len(registry) |-> registry[i]])

\* a caller calls GetRegisteredProviders() and keeps the result
GetRegisteredProviders ==
    /\ ~panicked
    /\ returned' = getRegisteredProviders(globalProviders)
    /\ UNCHANGED <<globalProviders, panicked, registerArgs, optionalOf, threads, callerOps, storeVars, loadVars>>

\* elems with element i replaced by v
SetIndex(elems, i, v) == [elems EXCEPT ![i] = v]

\* the caller runs  returned[i] = v : an element store writes the backing array, which
\* is the registry's array exactly when the slice shares it
CallerOverwrite(i, v) ==
    /\ pc = "idle"
    /\ ~panicked
    /\ i \in 1..Len(returned.elems)
    /\ returned' = Slice(returned.shared, SetIndex(returned.elems, i, v))
    /\ globalProviders' =
          IF returned.shared /\ i <= Len(globalProviders)
          THEN SetIndex(globalProviders, i, v) ELSE globalProviders
    /\ callerOps' = callerOps + 1
    /\ UNCHANGED <<panicked, registerArgs, optionalOf, threads, storeVars, loadVars>>

\* the caller runs  returned = append(returned, v) : append stores into the backing
\* array while the length is below its capacity and moves to a new array otherwise
CallerAppend(v) ==
    /\ pc = "idle"
    /\ ~panicked
    /\ IF returned.shared /\ Len(returned.elems) < Len(globalProviders)
       THEN /\ returned' = Slice(TRUE, Append(returned.elems, v))
            /\ globalProviders' = SetIndex(globalProviders, Len(returned.elems) + 1, v)
       ELSE /\ returned' = Slice(FALSE, Append(returned.elems, v))
            /\ UNCHANGED globalProviders
    /\ callerOps' = callerOps + 1
    /\ UNCHANGED <<panicked, registerArgs, optionalOf, threads, storeVars, loadVars>>

\* the caller runs  returned = returned[:n] : a new slice header over the same array
CallerTruncate(n) ==
    /\ pc = "idle"
    /\ ~panicked
    /\ n \in 0..(Len(returned.elems) - 1)
    /\ returned' = Slice(returned.shared, SubSeq(returned.elems, 1, n))
    /\ callerOps' = callerOps + 1
    /\ UNCHANGED <<globalProviders, panicked, registerArgs, optionalOf, threads, storeVars, loadVars>>

\* the number of calls is capped where the action is used (Next, NextStore)
SetProviderEnabled(name, enabled) ==
    /\ ~panicked
    /\ storeCalls' = storeCalls + 1
    /\ EnabledProviders' = MapSet(EnabledProviders, name, enabled)
    /\ lastEnabled' = [lastEnabled EXCEPT ![name] = BoolValue(enabled)]
    /\ UNCHANGED <<registryVars, ProviderConfigs, lastConfig, otherVars, loadVars>>

SetProviderConfig(name, config) ==
    /\ ~panicked
    /\ storeCalls' = storeCalls + 1
    /\ ProviderConfigs' = MapSet(ProviderConfigs, name, config)
    /\ lastConfig' = [lastConfig EXCEPT ![name] = [set |-> TRUE, value |-> config]]
    /\ UNCHANGED <<registryVars, EnabledProviders, lastEnabled, otherVars, loadVars>>

\* loaders whose maps are one process-wide pair: a call on the second loader stores into
\* the maps the first one reads
OtherSetProviderEnabledShared(name, enabled) ==
    /\ ~panicked
    /\ otherEnabled' = MapSet(otherEnabled, name, enabled)
    /\ EnabledProviders' = otherEnabled'
    /\ UNCHANGED <<registryVars, ProviderConfigs, storeCalls, lastEnabled, lastConfig,
                   otherConfigs, loadVars>>

OtherSetProviderConfigShared(name, config) ==
    /\ ~panicked
    /\ otherConfigs' = MapSet(otherConfigs, name, config)
    /\ ProviderConfigs' = otherConfigs'
    /\ UNCHANGED <<registryVars, EnabledProviders, storeCalls, lastEnabled, lastConfig,
                   otherEnabled, loadVars>>

\* SetProviderEnabled and SetProviderConfig with a second loader as receiver: p is
\* another Provider value, built with maps of its own
OtherSetProviderEnabled(name, enabled) ==
    /\ ~panicked
    /\ otherEnabled' = MapSet(otherEnabled, name, enabled)
    /\ UNCHANGED <<registryVars, EnabledProviders, ProviderConfigs, storeCalls, lastEnabled,
                   lastConfig, otherConfigs, loadVars>>

OtherSetProviderConfig(name, config) ==
    /\ ~panicked
    /\ otherConfigs' = MapSet(otherConfigs, name, config)
    /\ UNCHANGED <<registryVars, EnabledProviders, ProviderConfigs, storeCalls, lastEnabled,
                   lastConfig, otherEnabled, loadVars>>

\* the enabled providers of a slice, in the order of the slice
enabledOf(provs, enabled) ==
    SelectSeq(provs, LAMBDA prov : IsProviderEnabled(enabled, prov.name))

\* a loader that drops the disabled providers from the snapshot before it sorts
LoadStartFilterFirst ==
    /\ pc = "idle"
    /\ ~panicked
    /\ providers' = globalProviders
    /\ withPriority' = sortWithPriority(enabledOf(globalProviders, EnabledProviders), ProviderConfigs)
    /\ queries' = priorityQueries(enabledOf(globalProviders, EnabledProviders), ProviderConfigs)
    /\ sortedProviders' =
          sortProvidersByPriority(enabledOf(globalProviders, EnabledProviders), ProviderConfigs)
    /\ registeredProviders' = << >>
    /\ idx' = 1
    /\ calls' = << >>
    /\ pc' = "register"
    /\ startEnabled' = EnabledProviders
    /\ startConfigs' = ProviderConfigs
    /\ UNCHANGED <<registryVars, storeVars, runVars, result>>

\* a loader that sorts the registry slice itself instead of a copy of it
LoadStartSortsInPlace ==
    /\ pc = "idle"
    /\ ~panicked
    /\ globalProviders' = sortProvidersByPriority(globalProviders, ProviderConfigs)
    /\ providers' = globalProviders'
    /\ withPriority' = sortWithPriority(globalProviders, ProviderConfigs)
    /\ queries' = priorityQueries(globalProviders, ProviderConfigs)
    /\ sortedProviders' = globalProviders'
    /\ registeredProviders' = << >>
    /\ idx' = 1
    /\ calls' = << >>
    /\ pc' = "register"
    /\ startEnabled' = EnabledProviders
    /\ startConfigs' = ProviderConfigs
    /\ UNCHANGED <<panicked, registerArgs, optionalOf, returned, callerOps, threads, storeVars,
                   runVars, result>>

\* LoadProviders, lines 53-60: snapshot, sort, registeredProviders = nil
LoadStart ==
    /\ pc = "idle"
    /\ ~panicked
    /\ providers' = globalProviders
    /\ withPriority' = sortWithPriority(globalProviders, ProviderConfigs)
    /\ queries' = priorityQueries(globalProviders, ProviderConfigs)
    /\ sortedProviders' = sortProvidersByPriority(globalProviders, ProviderConfigs)
    /\ registeredProviders' = << >>
    /\ idx' = 1
    /\ calls' = << >>
    /\ pc' = "register"
    /\ startEnabled' = EnabledProviders
    /\ startConfigs' = ProviderConfigs
    /\ UNCHANGED <<registryVars, storeVars, runVars, result>>

\* a loader with a single loop: an iteration boots the provider it has just registered
RegisterIterationBootsAtOnce ==
    /\ pc = "register"
    /\ idx <= Len(sortedProviders)
    /\ LET prov == sortedProviders[idx]
           config == GetProviderConfig(ProviderConfigs, prov.name)
           configures == configureApplies(prov, config)
       IN
       IF ~IsProviderEnabled(EnabledProviders, prov.name)
       THEN /\ idx' = idx + 1
            /\ UNCHANGED <<pc, registeredProviders, calls, result>>
       ELSE \E cerr \in (IF configures THEN Errors \cup {NoError} ELSE {NoError}),
               rerr \in Errors \cup {NoError} :
            LET configured == IF configures
                              THEN Append(calls, Call("Configure", prov.name, config, cerr))
                              ELSE calls
            IN
            IF callFails(cerr)
            THEN /\ rerr = NoError
                 /\ calls' = configured
                 /\ result' = WrappedError("configure", prov.name, cerr)
                 /\ pc' = "returned"
                 /\ UNCHANGED <<registeredProviders, idx>>
            ELSE IF callFails(rerr)
                 THEN /\ calls' = Append(configured, Call("Register", prov.name, EmptyMap, rerr))
                      /\ result' = WrappedError("register", prov.name, rerr)
                      /\ pc' = "returned"
                      /\ UNCHANGED <<registeredProviders, idx>>
                 ELSE /\ calls' = configured \o
                                     <<Call("Register", prov.name, EmptyMap, rerr),
                                       Call("Boot", prov.name, EmptyMap, NoError)>>
                      /\ idx' = idx + 1
                      /\ UNCHANGED <<pc, registeredProviders, result>>
    /\ UNCHANGED <<registryVars, storeVars, runVars, startVars, providers, withPriority, queries, sortedProviders>>

\* an iteration that calls Register first and Configure after it
RegisterIterationRegisterFirst ==
    /\ pc = "register"
    /\ idx <= Len(sortedProviders)
    /\ LET prov == sortedProviders[idx]
           config == GetProviderConfig(ProviderConfigs, prov.name)
           configures == configureApplies(prov, config)
       IN
       IF ~IsProviderEnabled(EnabledProviders, prov.name)
       THEN /\ idx' = idx + 1
            /\ UNCHANGED <<pc, registeredProviders, calls, result>>
       ELSE \E cerr \in (IF configures THEN Errors \cup {NoError} ELSE {NoError}),
               rerr \in Errors \cup {NoError} :
            LET registered == Append(calls, Call("Register", prov.name, EmptyMap, rerr)) IN
            IF callFails(rerr)
            THEN /\ cerr = NoError
                 /\ calls' = registered
                 /\ result' = WrappedError("register", prov.name, rerr)
                 /\ pc' = "returned"
                 /\ UNCHANGED <<registeredProviders, idx>>
            ELSE /\ calls' = IF configures
                             THEN Append(registered, Call("Configure", prov.name, config, cerr))
                             ELSE registered
                 /\ IF callFails(cerr)
                    THEN /\ result' = WrappedError("configure", prov.name, cerr)
                         /\ pc' = "returned"
                         /\ UNCHANGED <<registeredProviders, idx>>
                    ELSE /\ registeredProviders' = Append(registeredProviders, prov)
                         /\ idx' = idx + 1
                         /\ UNCHANGED <<pc, result>>
    /\ UNCHANGED <<registryVars, storeVars, runVars, startVars, providers, withPriority, queries, sortedProviders>>

\* one iteration of "for _, prov := range sortedProviders" (lines 61-82)
RegisterIteration ==
    /\ pc = "register"
    /\ idx <= Len(sortedProviders)
    /\ LET prov == sortedProviders[idx]
           config == GetProviderConfig(ProviderConfigs, prov.name)
           configures == configureApplies(prov, config)
       IN
       IF ~IsProviderEnabled(EnabledProviders, prov.name)
       THEN \* continue
            /\ idx' = idx + 1
            /\ UNCHANGED <<pc, registeredProviders, calls, result>>
       ELSE \E cerr \in (IF configures THEN Errors \cup {NoError} ELSE {NoError}),
               rerr \in Errors \cup {NoError} :
            LET configured == IF configures
                              THEN Append(calls, Call("Configure", prov.name, config, cerr))
                              ELSE calls
            IN
            IF callFails(cerr)
            THEN /\ rerr = NoError
                 /\ calls' = configured
                 /\ result' = WrappedError("configure", prov.name, cerr)
                 /\ pc' = "returned"
                 /\ UNCHANGED <<registeredProviders, idx>>
            ELSE /\ calls' = Append(configured, Call("Register", prov.name, EmptyMap, rerr))
                 /\ IF callFails(rerr)
                    THEN /\ result' = WrappedError("register", prov.name, rerr)
                         /\ pc' = "returned"
                         /\ UNCHANGED <<registeredProviders, idx>>
                    ELSE /\ registeredProviders' = Append(registeredProviders, prov)
                         /\ idx' = idx + 1
                         /\ UNCHANGED <<pc, result>>
    /\ UNCHANGED <<registryVars, storeVars, runVars, startVars, providers, withPriority, queries, sortedProviders>>

\* a loader that starts booting as soon as one iteration of the register loop is over
RegisterDoneEarly ==
    /\ pc = "register"
    /\ idx > 1
    /\ pc' = "boot"
    /\ idx' = 1
    /\ UNCHANGED <<registryVars, storeVars, runVars, startVars, providers, withPriority, queries, sortedProviders,
                   registeredProviders, calls, result>>

\* a boot loop that ranges over sortedProviders instead of registeredProviders
RegisterDoneBootAll ==
    /\ pc = "register"
    /\ idx > Len(sortedProviders)
    /\ pc' = "boot"
    /\ idx' = 1
    /\ registeredProviders' = sortedProviders
    /\ UNCHANGED <<registryVars, storeVars, runVars, startVars, providers, withPriority, queries, sortedProviders,
                   calls, result>>

\* a loader that reads the registry again when its register loop is over and goes on
\* with the providers added since the load began
RegisterDoneRereads ==
    /\ pc = "register"
    /\ idx > Len(sortedProviders)
    /\ IF Len(globalProviders) > Len(providers)
       THEN /\ providers' = globalProviders
            /\ sortedProviders' =
                  sortedProviders \o SubSeq(globalProviders, Len(providers) + 1, Len(globalProviders))
            /\ UNCHANGED <<pc, idx>>
       ELSE /\ pc' = "boot"
            /\ idx' = 1
            /\ UNCHANGED <<providers, sortedProviders>>
    /\ UNCHANGED <<registryVars, storeVars, runVars, startVars, withPriority, queries,
                   registeredProviders, calls, result>>

\* a loader that sorts again before it boots: the providers it registered are put in the
\* order of the priorities as they are resolved when the register loop ends
RegisterDoneResorts ==
    /\ pc = "register"
    /\ idx > Len(sortedProviders)
    /\ pc' = "boot"
    /\ idx' = 1
    /\ registeredProviders' = sortProvidersByPriority(registeredProviders, ProviderConfigs)
    /\ UNCHANGED <<registryVars, storeVars, runVars, startVars, providers, withPriority, queries,
                   sortedProviders, calls, result>>

\* a loader whose register loop does not end: past the last provider it stays where it is
RegisterDoneStalls ==
    /\ pc = "register"
    /\ idx > Len(sortedProviders)
    /\ UNCHANGED vars

\* the register loop is exhausted: the boot loop begins
RegisterDone ==
    /\ pc = "register"
    /\ idx > Len(sortedProviders)
    /\ pc' = "boot"
    /\ idx' = 1
    /\ UNCHANGED <<registryVars, storeVars, runVars, startVars, providers, withPriority, queries, sortedProviders,
                   registeredProviders, calls, result>>

\* one iteration of "for _, prov := range registeredProviders" (lines 85-95)
BootIteration ==
    /\ pc = "boot"
    /\ idx <= Len(registeredProviders)
    /\ LET prov == registeredProviders[idx] IN
       \E berr \in Errors \cup {NoError}, ok \in BOOLEAN, optional \in BOOLEAN :
         \* the type assertion and IsOptional() are evaluated only when Boot failed,
         \* and IsOptional() only when the assertion succeeded
         /\ ~consultsOptional(berr) => ~ok
         /\ ~ok => ~optional
         /\ calls' = IF ok
                      THEN calls \o <<Call("Boot", prov.name, EmptyMap, berr),
                                      Call("IsOptional", prov.name, EmptyMap, BoolValue(optional))>>
                      ELSE Append(calls, Call("Boot", prov.name, EmptyMap, berr))
         /\ IF bootAborts(berr, optional)
            THEN /\ result' = WrappedError("boot", prov.name, berr)
                 /\ pc' = "returned"
                 /\ UNCHANGED idx
            ELSE /\ idx' = idx + 1
                 /\ UNCHANGED <<pc, result>>
    /\ UNCHANGED <<registryVars, storeVars, runVars, startVars, providers, withPriority, queries, sortedProviders,
                   registeredProviders>>

\* a loader that drops the payloads it has handed out when it returns nil
LoadReturnClearsConfigs ==
    /\ pc = "boot"
    /\ idx > Len(registeredProviders)
    /\ result' = NilResult
    /\ pc' = "returned"
    /\ ProviderConfigs' = EmptyGoMap
    /\ UNCHANGED <<registryVars, EnabledProviders, storeCalls, lastEnabled, lastConfig, otherVars,
                   runVars, startVars, providers, withPriority, queries, sortedProviders,
                   registeredProviders, idx, calls>>

\* lines 97-98: return nil
LoadReturn ==
    /\ pc = "boot"
    /\ idx > Len(registeredProviders)
    /\ result' = NilResult
    /\ pc' = "returned"
    /\ UNCHANGED <<registryVars, storeVars, runVars, startVars, providers, withPriority, queries, sortedProviders,
                   registeredProviders, idx, calls>>

\* a loader that remembers it has loaded: a second LoadProviders call returns nil at once
LoadAgainNoOp ==
    /\ pc = "returned"
    /\ ~reloaded
    /\ reloaded' = TRUE
    /\ prevCalls' = calls
    /\ prevResult' = result
    /\ calls' = << >>
    /\ result' = NilResult
    /\ UNCHANGED <<registryVars, storeVars, startVars, pc, providers, withPriority, queries,
                   sortedProviders, registeredProviders, idx>>

\* LoadProviders is called again on the same loader after it returned: lines 53-60 run
\* as in the first call; what the first call did is kept aside for comparison
LoadAgain ==
    /\ pc = "returned"
    /\ ~reloaded
    /\ reloaded' = TRUE
    /\ prevCalls' = calls
    /\ prevResult' = result
    /\ providers' = globalProviders
    /\ withPriority' = sortWithPriority(globalProviders, ProviderConfigs)
    /\ queries' = priorityQueries(globalProviders, ProviderConfigs)
    /\ sortedProviders' = sortProvidersByPriority(globalProviders, ProviderConfigs)
    /\ registeredProviders' = << >>
    /\ idx' = 1
    /\ calls' = << >>
    /\ pc' = "register"
    /\ startEnabled' = EnabledProviders
    /\ startConfigs' = ProviderConfigs
    /\ UNCHANGED <<registryVars, storeVars, result>>

Next ==
    \/ \E p \in Providers :
          /\ pc = "idle"
          /\ p.name \in OfferedNames(globalProviders)
          /\ RegisterGlobalProvider(p)
          /\ UNCHANGED <<registerArgs, optionalOf>>
    \/ Recover
    \/ \E n \in Names, e \in BOOLEAN :
          pc = "idle" /\ storeCalls < MaxStoreCalls /\ SetProviderEnabled(n, e)
    \/ \E n \in Names, c \in ConfigValues :
          pc = "idle" /\ storeCalls < MaxStoreCalls /\ SetProviderConfig(n, c)
    \/ LoadStart
    \/ RegisterIteration
    \/ RegisterDone
    \/ BootIteration
    \/ LoadReturn

Spec == Init /\ [][Next]_vars

\* the providers answer the second load as they answered the first: a call the second
\* load makes at the same place on the same provider with the same argument returns
\* what it returned before, and a provider has IsOptional() in both loads or in neither
SameCallbackResults ==
    \A i \in 1..Len(calls) :
        /\ i <= Len(prevCalls)
        /\ calls[i].op = prevCalls[i].op
        /\ calls[i].name = prevCalls[i].name
        /\ calls[i].arg = prevCalls[i].arg
        => /\ calls[i].ret = prevCalls[i].ret
           /\ (i < Len(calls) /\ calls[i + 1].op = "IsOptional")
                 <=> (i < Len(prevCalls) /\ prevCalls[i + 1].op = "IsOptional")

\* two LoadProviders calls in a row on one loader, with providers that behave the same
\* way in both
NextReload ==
    \/ \E p \in PlainOrFullProviders :
          /\ pc = "idle"
          /\ p.name \in FreshNames(globalProviders)
          /\ RegisterGlobalProvider(p)
          /\ UNCHANGED <<registerArgs, optionalOf>>
    \/ \E n \in Names, e \in BOOLEAN :
          pc = "idle" /\ storeCalls < MaxStoreCalls /\ SetProviderEnabled(n, e)
    \/ \E n \in Names, c \in ConfigValues :
          pc = "idle" /\ storeCalls < MaxStoreCalls /\ SetProviderConfig(n, c)
    \/ LoadStart
    \/ RegisterIteration /\ (reloaded => SameCallbackResults')
    \/ RegisterDone
    \/ BootIteration /\ (reloaded => SameCallbackResults')
    \/ LoadReturn
    \/ LoadAgain

ReloadSpec == Init /\ [][NextReload]_vars

\* every provider answers the loader as its kind says: after a failed Boot the type
\* assertion to OptionalProvider succeeds unless the kind is "none", and IsOptional()
\* returns the kind
AnswersAsDeclared ==
    \A i \in 1..Len(calls) :
        /\ calls[i].op = "IsOptional" => calls[i].ret = optionalOf[calls[i].name]
        /\ calls[i].op = "Boot" /\ consultsOptional(calls[i].ret)
              /\ optionalOf[calls[i].name] # "none"
              => i < Len(calls) /\ calls[i + 1].op = "IsOptional"

\* loads over providers whose kind of OptionalProvider is fixed when they are registered
NextOptional ==
    \/ \E p \in PlainOrFullProviders, kind \in OptionalKinds :
          /\ pc = "idle"
          /\ p.name \in FreshNames(globalProviders)
          /\ RegisterGlobalProvider(p)
          /\ optionalOf' = [optionalOf EXCEPT ![p.name] = kind]
          /\ UNCHANGED registerArgs
    \/ \E n \in Names, e \in BOOLEAN :
          pc = "idle" /\ storeCalls < MaxStoreCalls /\ SetProviderEnabled(n, e)
    \/ \E n \in Names, c \in ConfigValues :
          pc = "idle" /\ storeCalls < MaxStoreCalls /\ SetProviderConfig(n, c)
    \/ LoadStart
    \/ RegisterIteration
    \/ RegisterDone
    \/ BootIteration /\ AnswersAsDeclared'
    \/ LoadReturn

OptionalSpec == Init /\ [][NextOptional]_vars

\* loads during which provider callbacks register further providers: a Register or Boot
\* callback that has been invoked calls RegisterGlobalProvider with a new name and notes
\* the provider in registerArgs
NextReentrant ==
    \/ Next
    \/ \E p \in RegistryProviders :
          /\ pc \in {"register", "boot"}
          /\ calls # << >>
          /\ p.name \in FreshNames(globalProviders)
          /\ RegisterGlobalProvider(p)
          /\ registerArgs' = Append(registerArgs, p)
          /\ UNCHANGED optionalOf

ReentrantSpec == Init /\ [][NextReentrant]_vars

\* loads during which provider callbacks change the loader's maps: a Configure, Register
\* or Boot callback that has been invoked calls SetProviderEnabled or SetProviderConfig
\* on the loader that is running
NextCallback ==
    \/ \E p \in PlainOrFullProviders :
          /\ pc = "idle"
          /\ p.name \in FreshNames(globalProviders)
          /\ RegisterGlobalProvider(p)
          /\ UNCHANGED <<registerArgs, optionalOf>>
    \/ \E n \in Names, e \in BOOLEAN :
          pc = "idle" /\ storeCalls < MaxStoreCalls /\ SetProviderEnabled(n, e)
    \/ \E n \in Names, c \in ConfigValues :
          pc = "idle" /\ storeCalls < MaxStoreCalls /\ SetProviderConfig(n, c)
    \/ LoadStart
    \/ RegisterIteration
    \/ RegisterDone
    \/ BootIteration
    \/ LoadReturn
    \/ \E n \in Names, e \in BOOLEAN :
          /\ pc \in {"register", "boot"}
          /\ calls # << >>
          /\ storeCalls < MaxStoreCalls
          /\ SetProviderEnabled(n, e)
    \/ \E n \in Names, c \in ConfigValues :
          /\ pc \in {"register", "boot"}
          /\ calls # << >>
          /\ storeCalls < MaxStoreCalls
          /\ SetProviderConfig(n, c)

CallbackSpec == Init /\ [][NextCallback]_vars

\* every operation on the registry and on the loader in one process: registrations
\* (duplicates included) and GetRegisteredProviders before and after a load, the two
\* setters, and the load itself
NextLifetime ==
    \/ \E p \in PlainOrFullProviders :
          /\ pc \in {"idle", "returned"}
          /\ p.name \in OfferedNames(globalProviders)
          /\ RegisterGlobalProvider(p)
          /\ UNCHANGED <<registerArgs, optionalOf>>
    \/ Recover
    \/ pc \in {"idle", "returned"} /\ GetRegisteredProviders
    \/ \E n \in Names, e \in BOOLEAN :
          /\ pc = "idle"
          /\ storeCalls < MaxStoreCalls
          /\ SetProviderEnabled(n, e)
    \/ \E n \in Names, c \in ConfigValues :
          /\ pc = "idle"
          /\ storeCalls < MaxStoreCalls
          /\ SetProviderConfig(n, c)
    \/ LoadStart
    \/ RegisterIteration
    \/ RegisterDone
    \/ BootIteration
    \/ LoadReturn

LifetimeSpec == Init /\ [][NextLifetime]_vars

\* providers with every capability, and the payloads that carry an int priority
FullProviders == {p \in PlainOrFullProviders : p.caps = Capabilities}
PriorityPayloads == {c \in ConfigValues : HasIntPriority(c)}

\* number of entries the second loader's maps hold
OtherEntries == Cardinality(DOMAIN otherEnabled) + Cardinality(DOMAIN otherConfigs)

\* two loaders over the one registry: the first is set up and loads, the second has its
\* setters called at any moment, before, during or after the load of the first
NextTwoLoaders ==
    \/ \E p \in FullProviders :
          /\ pc = "idle"
          /\ p.name \in FreshNames(globalProviders)
          /\ RegisterGlobalProvider(p)
          /\ UNCHANGED <<registerArgs, optionalOf>>
    \/ \E n \in Names, e \in BOOLEAN :
          pc = "idle" /\ storeCalls < MaxStoreCalls /\ SetProviderEnabled(n, e)
    \/ \E n \in Names, c \in ConfigValues :
          pc = "idle" /\ storeCalls < MaxStoreCalls /\ SetProviderConfig(n, c)
    \/ \E n \in Names, e \in BOOLEAN :
          OtherEntries < MaxStoreCalls /\ OtherSetProviderEnabled(n, e)
    \/ \E n \in Names, c \in PriorityPayloads :
          OtherEntries < MaxStoreCalls /\ OtherSetProviderConfig(n, c)
    \/ LoadStart
    \/ RegisterIteration
    \/ RegisterDone
    \/ BootIteration
    \/ LoadReturn

TwoLoaderSpec == Init /\ [][NextTwoLoaders]_vars

\* process initialisation registers providers one call after the other; then two
\* goroutines call RegisterGlobalProvider, one after the other or at the same time
NextConcurrent ==
    \/ \E p \in RegistryProviders :
          /\ pc = "idle"
          /\ threads = NoThreads
          /\ p.name \in FreshNames(globalProviders)
          /\ RegisterGlobalProvider(p)
          /\ UNCHANGED <<registerArgs, optionalOf>>
    \/ \E t \in ThreadIds, p \in RegistryProviders : RegisterEnter(t, p)
    \/ \E t \in ThreadIds : RegisterRange(t)
    \/ \E t \in ThreadIds : RegisterAppendRead(t)
    \/ \E t \in ThreadIds : RegisterAppendStore(t)

ConcurrentSpec == Init /\ [][NextConcurrent]_vars

\* sortProvidersByPriority on its own: registries of every kind of provider, payloads
\* stored for several of them, and the call LoadProviders makes in line 57
NextSort ==
    \/ \E p \in Providers :
          /\ pc = "idle"
          /\ p.name \in FreshNames(globalProviders)
          /\ RegisterGlobalProvider(p)
          /\ registerArgs' = Append(registerArgs, p)
          /\ UNCHANGED optionalOf
    \/ \E n \in Names, c \in ConfigValues :
          pc = "idle" /\ storeCalls < MaxSetCalls /\ SetProviderConfig(n, c)
    \/ LoadStart

SortSpec == Init /\ [][NextSort]_vars

\* a load that is left to run: LoadProviders is sequential code and every callback it
\* calls returns, so a loop iteration, the end of a loop or the return that can be taken
\* is taken
NextLive ==
    \/ \E p \in PlainOrFullProviders :
          /\ pc = "idle"
          /\ p.name \in FreshNames(globalProviders)
          /\ RegisterGlobalProvider(p)
          /\ UNCHANGED <<registerArgs, optionalOf>>
    \/ \E n \in Names, e \in BOOLEAN :
          pc = "idle" /\ storeCalls < MaxStoreCalls /\ SetProviderEnabled(n, e)
    \/ \E n \in Names, c \in ConfigValues :
          pc = "idle" /\ storeCalls < MaxStoreCalls /\ SetProviderConfig(n, c)
    \/ LoadStart
    \/ RegisterIteration
    \/ RegisterDone
    \/ BootIteration
    \/ LoadReturn

LiveSpec ==
    /\ Init
    /\ [][NextLive]_vars
    /\ WF_vars(RegisterIteration)
    /\ WF_vars(RegisterDone)
    /\ WF_vars(BootIteration)
    /\ WF_vars(LoadReturn)

\* the registry on its own: registrations (logged by the caller), recovered panics,
\* GetRegisteredProviders and what the caller does to the slice it got
NextRegistry ==
    \/ \E p \in RegistryProviders :
          /\ pc = "idle"
          /\ Len(registerArgs) < MaxRegisterCalls
          /\ p.name \in OfferedNames(globalProviders)
          /\ RegisterGlobalProvider(p)
          /\ registerArgs' = Append(registerArgs, p)
          /\ UNCHANGED optionalOf
    \/ Recover
    \/ pc = "idle" /\ GetRegisteredProviders
    \/ \E i \in 1..(Len(NameOrder) + MaxCallerOps), v \in CallerValues :
          callerOps < MaxCallerOps /\ CallerOverwrite(i, v)
    \/ \E v \in CallerValues : callerOps < MaxCallerOps /\ CallerAppend(v)
    \/ \E n \in 0..Len(NameOrder) : callerOps < MaxCallerOps /\ CallerTruncate(n)

RegistrySpec == Init /\ [][NextRegistry]_vars

\* the loader's two maps on their own: any sequence of SetProviderEnabled and
\* SetProviderConfig calls; the getters are read in every state
NextStore ==
    \/ \E n \in Names, e \in BOOLEAN :
          pc = "idle" /\ storeCalls < MaxSetCalls /\ SetProviderEnabled(n, e)
    \/ \E n \in Names, c \in ConfigValues :
          pc = "idle" /\ storeCalls < MaxSetCalls /\ SetProviderConfig(n, c)

StoreSpec == Init /\ [][NextStore]_vars

----------------------------------------------------------------------------
(* What a run of LoadProviders shows *)

CallIdx == 1..Len(calls)
LifecycleOps == {"Configure", "Register", "Boot"}

\* the Name()s on which op was invoked, in call order
NamesOf(op) ==
    LET sel == SelectSeq(calls, LAMBDA c : c.op = op) IN [i \in 1..Len(sel) |-> sel[i].name]

IsPrefix(s, t) == Len(s) <= Len(t) /\ \A i \in 1..Len(s) : s[i] = t[i]

\* SetProviderEnabled(name, false) is the latest setting for name
Disabled(name) == name \in DOMAIN EnabledProviders /\ EnabledProviders[name] = FALSE

\* the payload stored for name holds a priority of type int
HasPriorityOverride(name) ==
    /\ name \in DOMAIN ProviderConfigs
    /\ "priority" \in DOMAIN ProviderConfigs[name].m
    /\ ProviderConfigs[name].m["priority"].type = "int"

\* a payload (not nil) is stored for name and holds no int priority
PayloadWithoutPriority(name) ==
    /\ name \in DOMAIN ProviderConfigs
    /\ ~ProviderConfigs[name].isNil
    /\ ~HasPriorityOverride(name)

\* position of the provider called name in the snapshot of the registry
RegistryPos(name) == CHOOSE i \in 1..Len(providers) : providers[i].name = name

\* the priority the running load assigned to the provider called name
AssignedPriority(name) ==
    LET i == CHOOSE k \in 1..Len(withPriority) : withPriority[k].provider.name = name
    IN withPriority[i].priority

NonDecreasing(names) ==
    \A i, j \in 1..Len(names) : i < j => AssignedPriority(names[i]) <= AssignedPriority(names[j])

ReturnedError == pc = "returned" /\ result.stage \in {"configure", "register", "boot"}
ReturnedNil == pc = "returned" /\ result.stage = "nil"

\* calls[i] is a Boot that failed on a provider that then reported itself optional
OptionalBootFailure(i) ==
    /\ calls[i].op = "Boot" /\ calls[i].ret # "nil"
    /\ i < Len(calls) /\ calls[i + 1].op = "IsOptional" /\ calls[i + 1].ret = "true"

\* calls[i] is a Boot that failed on a provider without IsOptional() (no IsOptional call
\* follows the Boot), or whose IsOptional() returned false
RequiredBootFailure(i) ==
    /\ calls[i].op = "Boot" /\ calls[i].ret # "nil"
    /\ \/ i = Len(calls)
       \/ i < Len(calls) /\ calls[i + 1].op # "IsOptional"
       \/ i < Len(calls) /\ calls[i + 1].op = "IsOptional" /\ calls[i + 1].ret = "false"

----------------------------------------------------------------------------
(* Claims *)

\* C1: during LoadProviders a provider that is disabled (IsProviderEnabled false)
\* never has Configure, Register or Boot invoked on it.
C1_DisabledNeverCalled ==
    \A i \in CallIdx : calls[i].op \in LifecycleOps => ~Disabled(calls[i].name)

\* a load that ran to its end over a registry holding a disabled provider and others
C1_Witness ==
    /\ ReturnedNil
    /\ Len(NamesOf("Boot")) >= 2
    /\ \E i \in 1..Len(providers) : Disabled(providers[i].name)

\* C2: Register is invoked on the enabled providers in non-decreasing order of resolved
\* priority, and afterwards Boot is invoked on them in that same order.
C2_PriorityOrder ==
    pc # "idle" =>
        /\ NonDecreasing(NamesOf("Register"))
        /\ NonDecreasing(NamesOf("Boot"))
        /\ IsPrefix(NamesOf("Boot"), NamesOf("Register"))

\* three providers of three different priorities, registered highest first, all loaded
C2_Witness ==
    /\ ReturnedNil
    /\ Len(NamesOf("Register")) = 3 /\ Len(NamesOf("Boot")) = 3
    /\ AssignedPriority(providers[1].name) > AssignedPriority(providers[2].name)
    /\ AssignedPriority(providers[2].name) > AssignedPriority(providers[3].name)

\* C3: every Register call of a run precedes every Boot call of the run, and when Boot is
\* first invoked Register has been invoked, and has returned, for every enabled provider.
C3_RegisterBeforeBoot ==
    \A i \in CallIdx : calls[i].op = "Boot" =>
        /\ \A j \in CallIdx : calls[j].op = "Register" => j < i
        /\ \A k \in 1..Len(providers) :
             ~Disabled(providers[k].name) =>
                 \E j \in 1..(i - 1) :
                     calls[j].op = "Register" /\ calls[j].name = providers[k].name

\* the boot phase has begun after three providers were registered
C3_Witness ==
    /\ Len(NamesOf("Register")) = 3
    /\ Len(NamesOf("Boot")) >= 1

\* the priority C4 states for a provider: the int priority of its payload, else the
\* priority it declares, else 100
C4_Priority(prov) ==
    IF HasPriorityOverride(prov.name) THEN ProviderConfigs[prov.name].m["priority"].val
    ELSE IF "Priority" \in prov.caps THEN prov.priority
    ELSE 100

\* C4: the resolved priority is the payload's int priority when there is one, otherwise
\* the provider's declared Priority() when it has the capability, otherwise 100.
C4_ResolvedPriority ==
    pc # "idle" =>
        \A i \in 1..Len(withPriority) :
            withPriority[i].priority = C4_Priority(withPriority[i].provider)

\* a provider that declares a priority is loaded with the other priority its payload gives
C4_Witness ==
    /\ pc = "returned"
    /\ \E i \in 1..Len(withPriority) :
         /\ "Priority" \in withPriority[i].provider.caps
         /\ HasPriorityOverride(withPriority[i].provider.name)
         /\ withPriority[i].priority # withPriority[i].provider.priority
         /\ \E j \in CallIdx : calls[j].name = withPriority[i].provider.name

\* C5 as stated: with a payload that holds no int priority the provider's declared
\* Priority() is not consulted, the provider gets the default priority 100.
C5_Original ==
    pc # "idle" =>
        \A i \in 1..Len(withPriority) :
            PayloadWithoutPriority(withPriority[i].provider.name) =>
                withPriority[i].priority = 100

\* C5 (amended): with a payload that holds no int priority the provider gets its declared
\* Priority() when it has the priority capability, and 100 only when it has not.
C5_FallsBackToDeclared ==
    pc # "idle" =>
        \A i \in 1..Len(withPriority) :
            PayloadWithoutPriority(withPriority[i].provider.name) =>
                withPriority[i].priority =
                    IF "Priority" \in withPriority[i].provider.caps
                    THEN withPriority[i].provider.priority
                    ELSE 100

\* a provider declaring priority 50 has a payload without int priority, and gets 50
C5_Witness ==
    /\ pc # "idle"
    /\ \E i \in 1..Len(withPriority) :
         /\ PayloadWithoutPriority(withPriority[i].provider.name)
         /\ "Priority" \in withPriority[i].provider.caps
         /\ withPriority[i].priority = withPriority[i].provider.priority

\* prov has neither Priority() nor an int priority in its payload
DefaultOrdered(prov) == "Priority" \notin prov.caps /\ ~HasPriorityOverride(prov.name)

\* C6: a provider with no priority capability and no config override is ordered as
\* priority 100: after every provider of lower, before every provider of higher priority.
C6_DefaultPriority ==
    pc # "idle" =>
        \A i \in 1..Len(withPriority) :
            DefaultOrdered(withPriority[i].provider) =>
                /\ withPriority[i].priority = 100
                /\ \A j \in 1..Len(withPriority) :
                     /\ withPriority[j].priority < 100 => j < i
                     /\ withPriority[j].priority > 100 => i < j
                /\ \A a, b \in CallIdx :
                     /\ calls[a].op = calls[b].op /\ calls[a].op \in {"Register", "Boot"}
                     /\ calls[a].name = withPriority[i].provider.name
                     => /\ AssignedPriority(calls[b].name) < 100 => b < a
                        /\ AssignedPriority(calls[b].name) > 100 => a < b

\* a default provider registered first is loaded between a lower and a higher priority
C6_Witness ==
    /\ ReturnedNil
    /\ Len(NamesOf("Boot")) = 3
    /\ DefaultOrdered(providers[1])
    /\ \E j \in 2..3 : AssignedPriority(providers[j].name) < 100
    /\ \E j \in 2..3 : AssignedPriority(providers[j].name) > 100

\* C7: the sort is stable: providers of equal resolved priority keep, in the load order,
\* the relative order in which they were registered.
C7_StableSort ==
    pc # "idle" =>
        /\ \A i, j \in 1..Len(withPriority) :
             i < j /\ withPriority[i].priority = withPriority[j].priority =>
                 RegistryPos(withPriority[i].provider.name)
                     < RegistryPos(withPriority[j].provider.name)
        /\ \A a, b \in CallIdx :
             /\ a < b /\ calls[a].op = calls[b].op /\ calls[a].op \in {"Register", "Boot"}
             /\ AssignedPriority(calls[a].name) = AssignedPriority(calls[b].name)
             => RegistryPos(calls[a].name) < RegistryPos(calls[b].name)

\* the first and the last registered provider tie, the one between them sorts first
C7_Witness ==
    /\ ReturnedNil
    /\ Len(NamesOf("Boot")) = 3
    /\ AssignedPriority(providers[1].name) = AssignedPriority(providers[3].name)
    /\ AssignedPriority(providers[2].name) < AssignedPriority(providers[1].name)

\* C8: if a provider's Register returns an error, LoadProviders returns a non-nil error
\* and Boot is never invoked on that provider.
C8_RegisterError ==
    \A i \in CallIdx :
        calls[i].op = "Register" /\ calls[i].ret # "nil" =>
            /\ ReturnedError
            /\ \A j \in CallIdx : ~(calls[j].op = "Boot" /\ calls[j].name = calls[i].name)

\* the Register of the second provider in the order failed
C8_Witness ==
    /\ pc = "returned"
    /\ Len(NamesOf("Register")) = 2
    /\ calls[Len(calls)].op = "Register" /\ calls[Len(calls)].ret # "nil"

\* C9: if Boot fails on a provider that does not report itself optional, LoadProviders
\* returns a non-nil error and Boot is invoked on no provider later in the order.
C9_RequiredBootError ==
    \A i \in CallIdx :
        RequiredBootFailure(i) =>
            /\ ReturnedError
            /\ \A j \in CallIdx : calls[j].op = "Boot" => j <= i

\* Boot failed on the first of three registered providers, whose IsOptional() said false
C9_Witness ==
    /\ pc = "returned"
    /\ Len(registeredProviders) = 3
    /\ \E i \in CallIdx :
         /\ RequiredBootFailure(i)
         /\ calls[i].name = registeredProviders[1].name
         /\ i < Len(calls) /\ calls[i + 1].op = "IsOptional"

\* position of the provider called name among the registered providers
BootPos(name) ==
    CHOOSE i \in 1..Len(registeredProviders) : registeredProviders[i].name = name

\* C10: a Boot failure of a provider that reports itself optional does not by itself make
\* LoadProviders return an error, and Boot is still invoked on the registered providers
\* after it (up to one whose Boot fails without being optional).
C10_OptionalBootError ==
    pc = "returned" =>
        /\ (\E i \in CallIdx : OptionalBootFailure(i)) /\ ReturnedError =>
              \E k \in CallIdx :
                  /\ calls[k].name = result.name
                  /\ RequiredBootFailure(k)
        /\ \A i \in CallIdx :
              OptionalBootFailure(i) =>
                  \A m \in (BootPos(calls[i].name) + 1)..Len(registeredProviders) :
                      \/ \E k \in CallIdx :
                             calls[k].op = "Boot" /\ calls[k].name = registeredProviders[m].name
                      \/ \E k \in CallIdx :
                             /\ RequiredBootFailure(k)
                             /\ BootPos(calls[k].name) < m

\* the first provider's Boot failed, it said it is optional, the two after it were
\* booted and the load returned nil
C10_Witness ==
    /\ ReturnedNil
    /\ Len(NamesOf("Boot")) = 3
    /\ \E i \in CallIdx : OptionalBootFailure(i) /\ calls[i].name = registeredProviders[1].name

\* calls[i] is a call that ends the load: a failed Configure, a failed Register, or a
\* failed Boot of a provider that is not optional
FailedCall(i) ==
    \/ calls[i].op \in {"Configure", "Register"} /\ calls[i].ret # "nil"
    \/ RequiredBootFailure(i)

\* the word fmt.Errorf uses for the method that failed
StageOf(op) ==
    IF op = "Configure" THEN "configure" ELSE IF op = "Register" THEN "register" ELSE "boot"

\* number of calls of op on the provider called name
CallCount(op, name) ==
    Cardinality({i \in CallIdx : calls[i].op = op /\ calls[i].name = name})

\* C11: if a provider's Configure returns an error, LoadProviders returns a non-nil error
\* at once: no Register on that provider, and no Configure, Register or Boot afterwards.
C11_ConfigureError ==
    \A i \in CallIdx :
        calls[i].op = "Configure" /\ calls[i].ret # "nil" =>
            /\ ReturnedError
            /\ i = Len(calls)
            /\ \A j \in CallIdx : ~(calls[j].op = "Register" /\ calls[j].name = calls[i].name)

\* Configure failed on a provider that is not the first of the load order
C11_Witness ==
    /\ pc = "returned"
    /\ Len(NamesOf("Register")) >= 1
    /\ calls[Len(calls)].op = "Configure" /\ calls[Len(calls)].ret # "nil"

\* C12: an error returned by LoadProviders names one provider and carries the cause that
\* provider returned; the provider is the first, in call order, whose Configure,
\* Register or non-optional Boot failed.
C12_ErrorNamesFirstFailure ==
    ReturnedError =>
        \E i \in CallIdx :
            /\ FailedCall(i)
            /\ \A j \in 1..(i - 1) : ~FailedCall(j)
            /\ result.name = calls[i].name
            /\ result.cause = calls[i].ret
            /\ result.stage = StageOf(calls[i].op)

\* a Boot failed after an earlier Boot had failed on an optional provider with another
\* cause: the error names the later provider and carries its cause
C12_Witness ==
    /\ ReturnedError
    /\ result.stage = "boot"
    /\ \E i \in CallIdx :
         /\ OptionalBootFailure(i)
         /\ calls[i].name # result.name
         /\ calls[i].ret # result.cause

\* no Configure, Register or Boot call of the run returned an error
NoCallFailed == \A i \in CallIdx : calls[i].op \in LifecycleOps => calls[i].ret = "nil"

\* C13: if no Configure, Register or Boot call fails, LoadProviders returns nil and every
\* enabled provider of the registry had Register invoked exactly once and Boot exactly once.
C13_AllLoaded ==
    pc = "returned" /\ NoCallFailed =>
        /\ ReturnedNil
        /\ \A k \in 1..Len(globalProviders) :
             ~Disabled(globalProviders[k].name) =>
                 /\ CallCount("Register", globalProviders[k].name) = 1
                 /\ CallCount("Boot", globalProviders[k].name) = 1

\* three enabled providers, one of them configured, all registered and booted without error
C13_Witness ==
    /\ ReturnedNil
    /\ NoCallFailed
    /\ Len(globalProviders) = 3
    /\ Len(NamesOf("Configure")) = 1
    /\ \A k \in 1..3 : CallCount("Boot", globalProviders[k].name) = 1

\* the names of a sequence of providers are pairwise distinct
DistinctNames(seq) ==
    \A i, j \in 1..Len(seq) : seq[i].name = seq[j].name => i = j

\* the last RegisterGlobalProvider call of the log, passed a name the registry held
LastCallDuplicate ==
    /\ registerArgs # << >>
    /\ \E k \in 1..(Len(registerArgs) - 1) :
         registerArgs[k].name = registerArgs[Len(registerArgs)].name

\* C14: after any sequence of RegisterGlobalProvider calls, successful or panicking, no
\* two entries of the registry share a Name().
C14_UniqueNames == DistinctNames(globalProviders)

\* a full registry after a recovered call that passed a name already in use
C14_Witness ==
    /\ Len(globalProviders) = Len(NameOrder)
    /\ LastCallDuplicate
    /\ ~panicked

\* C15: RegisterGlobalProvider with a provider whose Name() is already in the registry
\* panics, and the registry is left exactly as it was before the call.
C15_DuplicatePanics ==
    [][\A p \in RegistryProviders :
          /\ registerArgs' = Append(registerArgs, p)
          /\ \E k \in 1..Len(globalProviders) : globalProviders[k].name = p.name
          => panicked' /\ globalProviders' = globalProviders]_vars

\* a call with the name of the first of two registered providers has panicked
C15_Witness ==
    /\ panicked
    /\ Len(globalProviders) = 2
    /\ Len(registerArgs) = 3
    /\ registerArgs[3].name = globalProviders[1].name
    /\ registerArgs[3] # globalProviders[1]

\* C16: after N RegisterGlobalProvider calls with pairwise distinct names on an empty
\* registry, GetRegisteredProviders returns exactly those N providers in call order.
C16_RegistrationOrder ==
    [][GetRegisteredProviders /\ DistinctNames(registerArgs)
          => returned'.elems = registerArgs]_vars

\* the caller holds the unchanged result of a call made after three registrations
C16_Witness ==
    /\ Len(registerArgs) = Len(NameOrder)
    /\ DistinctNames(registerArgs)
    /\ callerOps = 0
    /\ returned.elems = registerArgs

\* C17: appending to, overwriting or truncating the sequence GetRegisteredProviders
\* returned never changes the global registry.
C17_CopyIsolation ==
    [][callerOps' # callerOps => globalProviders' = globalProviders]_vars

\* the caller changed the last element of the slice it got, by a store or by cutting
\* the slice and appending: the registry still holds what was registered
C17_Witness ==
    /\ callerOps = MaxCallerOps
    /\ Len(globalProviders) >= 2
    /\ Len(returned.elems) = Len(globalProviders)
    /\ returned.elems[Len(globalProviders)] # globalProviders[Len(globalProviders)]
    /\ DistinctNames(registerArgs) /\ globalProviders = registerArgs

\* C18: after any sequence of SetProviderEnabled calls, IsProviderEnabled(name) returns
\* the value of the most recent SetProviderEnabled(name, v), and true for a name never set.
C18_LatestEnabled ==
    \A n \in Names :
        BoolValue(IsProviderEnabled(EnabledProviders, n)) =
            IF lastEnabled[n] = "unset" THEN "true" ELSE lastEnabled[n]

\* three calls on two names, one of them set twice: one name ends enabled by a call,
\* one disabled, and the third was never set
C18_Witness ==
    /\ storeCalls = 3
    /\ \E n, m, k \in Names :
         /\ lastEnabled[n] = "true" /\ lastEnabled[m] = "false" /\ lastEnabled[k] = "unset"
         /\ IsProviderEnabled(EnabledProviders, n)
         /\ ~IsProviderEnabled(EnabledProviders, m)

\* C19: after SetProviderConfig(name, c), GetProviderConfig(name) returns c until the next
\* SetProviderConfig for that name; setting one name's config changes no other name's.
C19_ConfigRoundTrip ==
    \A n \in Names :
        IF lastConfig[n].set
        THEN GetProviderConfig(ProviderConfigs, n) = lastConfig[n].value
        ELSE GetProviderConfig(ProviderConfigs, n) = NilMap

\* a name's config was replaced, and a different config was stored for another name
C19_Witness ==
    /\ storeCalls = 3
    /\ \E n, m \in Names :
         /\ n # m
         /\ lastConfig[n].set /\ lastConfig[m].set
         /\ lastConfig[n].value # lastConfig[m].value
         /\ "priority" \in DOMAIN GetProviderConfig(ProviderConfigs, n).m
         /\ GetProviderConfig(ProviderConfigs, m) = EmptyMap

\* a payload without key/value pairs
EmptyPayload(config) == DOMAIN config.m = {}

\* C20: GetProviderConfig yields nil for a name with no stored config, and a present
\* (non-nil), empty payload for a name whose stored config is an empty payload, whatever
\* empty payload SetProviderConfig was handed.
C20_AbsentVsEmpty ==
    \A n \in Names :
        /\ ~lastConfig[n].set => GetProviderConfig(ProviderConfigs, n).isNil
        /\ lastConfig[n].set /\ EmptyPayload(lastConfig[n].value) =>
              /\ ~GetProviderConfig(ProviderConfigs, n).isNil
              /\ EmptyPayload(GetProviderConfig(ProviderConfigs, n))

\* the provider of the snapshot that is called name
ProviderNamed(name) == providers[RegistryPos(name)]

\* the latest SetProviderConfig call for name stored a payload that is not nil
StoredPayload(name) == lastConfig[name].set /\ ~lastConfig[name].value.isNil

\* the provider called m comes before the one called n in the order of the load:
\* smaller assigned priority, or the same priority and registered earlier
Earlier(m, n) ==
    \/ AssignedPriority(m) < AssignedPriority(n)
    \/ AssignedPriority(m) = AssignedPriority(n) /\ RegistryPos(m) < RegistryPos(n)

\* a call of op on the provider called name was made before calls[i]
CalledBefore(op, name, i) ==
    \E j \in 1..(i - 1) : calls[j].op = op /\ calls[j].name = name

\* C21: during LoadProviders, Configure is invoked on an enabled provider if and only if
\* it has the configuration capability and a config payload is present (stored and not
\* nil) for its name; it is invoked once, with exactly the payload SetProviderConfig stored.
C21_ConfigureIffPayload ==
    /\ \A i \in CallIdx :
         calls[i].op = "Configure" =>
            /\ "Configure" \in ProviderNamed(calls[i].name).caps
            /\ StoredPayload(calls[i].name)
            /\ calls[i].arg = lastConfig[calls[i].name].value
            /\ CallCount("Configure", calls[i].name) = 1
    /\ \A i \in CallIdx :
         /\ calls[i].op = "Register"
         /\ "Configure" \in ProviderNamed(calls[i].name).caps
         /\ StoredPayload(calls[i].name)
         => CalledBefore("Configure", calls[i].name, i)

\* a load that returned nil configured one provider with its stored payload and
\* registered another provider with the capability, and no payload, without Configure
C21_Witness ==
    /\ ReturnedNil
    /\ \E i, j \in CallIdx :
         /\ calls[i].op = "Configure" /\ calls[i].arg = MapOf({"priority"}, IntValue(10))
         /\ calls[j].op = "Register" /\ calls[j].name # calls[i].name
         /\ "Configure" \in ProviderNamed(calls[j].name).caps

\* C22: Configure is not a phase of its own: a provider's Configure call comes after the
\* Register call of every enabled provider earlier in the order, before any Boot, and
\* immediately before the provider's own Register call.
C22_ConfigureBeforeOwnRegister ==
    \A i \in CallIdx :
        calls[i].op = "Configure" =>
            /\ calls[i].ret = "nil" =>
                  /\ i < Len(calls)
                  /\ calls[i + 1].op = "Register" /\ calls[i + 1].name = calls[i].name
            /\ \A j \in 1..(i - 1) :
                  /\ calls[j].op \in {"Configure", "Register"}
                  /\ Earlier(calls[j].name, calls[i].name)
            /\ \A k \in 1..Len(providers) :
                  ~Disabled(providers[k].name) /\ Earlier(providers[k].name, calls[i].name)
                  => CalledBefore("Register", providers[k].name, i)

\* the call sequence A.Register, B.Configure, B.Register, C.Register, A.Boot, B.Boot, C.Boot
C22_Witness ==
    /\ ReturnedNil
    /\ Len(calls) = 7
    /\ calls[1].op = "Register"
    /\ calls[2].op = "Configure" /\ calls[3].op = "Register" /\ calls[3].name = calls[2].name
    /\ calls[4].op = "Register"
    /\ Len(NamesOf("Boot")) = 3 /\ NamesOf("Boot") = NamesOf("Register")

\* C24: once a Configure, Register or non-optional Boot call has failed in a run, no
\* further Configure, Register or Boot call is made on any provider in that run, and no
\* call is made to undo what was configured, registered or booted before.
C24_FailFast ==
    /\ \A i \in CallIdx : calls[i].op \in LifecycleOps \cup {"IsOptional"}
    /\ \A i \in CallIdx :
         FailedCall(i) => \A j \in (i + 1)..Len(calls) : calls[j].op \notin LifecycleOps

\* the second Boot failed on a required provider after three Register calls, one of
\* them configured: the third provider is never booted, nothing is undone
C24_Witness ==
    /\ ReturnedError /\ result.stage = "boot"
    /\ Len(NamesOf("Configure")) = 1
    /\ Len(NamesOf("Register")) = 3
    /\ Len(NamesOf("Boot")) = 2
    /\ calls[Len(calls)].op = "IsOptional" /\ calls[Len(calls)].ret = "false"

\* the provider called name had Register invoked, and Register returned nil
RegisteredOk(name) ==
    \E i \in CallIdx : calls[i].op = "Register" /\ calls[i].name = name /\ calls[i].ret = "nil"

\* C25: when the register phase aborts at provider k (its Configure or Register fails),
\* Boot is invoked on no provider in that run, although every enabled provider ordered
\* before k has had Register invoked successfully.
C25_NoBootAfterRegisterAbort ==
    ReturnedError /\ result.stage \in {"configure", "register"} =>
        /\ NamesOf("Boot") = << >>
        /\ \A k \in 1..Len(providers) :
             ~Disabled(providers[k].name) /\ Earlier(providers[k].name, result.name)
             => RegisteredOk(providers[k].name)

\* Register failed on the third provider of the order: two providers are registered
\* and not booted
C25_Witness ==
    /\ ReturnedError /\ result.stage = "register"
    /\ Len(NamesOf("Register")) = 3
    /\ \E m, n \in Names : m # n /\ RegisteredOk(m) /\ RegisteredOk(n)
    /\ NamesOf("Boot") = << >>

\* C26: within one run, Boot is invoked on a provider only if Register was invoked on it
\* earlier in the run and returned no error; each provider receives at most one Register
\* and at most one Boot call.
C26_BootOnlyRegistered ==
    /\ \A i \in CallIdx :
         calls[i].op = "Boot" =>
            \E j \in 1..(i - 1) :
                calls[j].op = "Register" /\ calls[j].name = calls[i].name /\ calls[j].ret = "nil"
    /\ \A i \in CallIdx :
         calls[i].op \in {"Register", "Boot"} =>
            \A j \in (i + 1)..Len(calls) :
                ~(calls[j].op = calls[i].op /\ calls[j].name = calls[i].name)

\* a finished load over three providers, one of them disabled: two are booted
C26_Witness ==
    /\ ReturnedNil
    /\ Len(providers) = 3
    /\ \E n \in Names : Disabled(n) /\ CallCount("Register", n) = 0 /\ CallCount("Boot", n) = 0
    /\ Len(NamesOf("Boot")) = 2

\* the questions a priority resolution asks for the provider prov of the snapshot:
\* the key "priority" of a stored payload, Priority() unless that key holds an int
ExpectedQueries(prov) ==
    (IF StoredPayload(prov.name) THEN {Query("config[priority]", prov.name)} ELSE {})
    \cup
    (IF "Priority" \in prov.caps /\ ~(StoredPayload(prov.name) /\ HasPriorityOverride(prov.name))
     THEN {Query("Priority", prov.name)} ELSE {})

SpecifiedOrder ==
    sortProvidersByPriority(SelectSeq(providers, LAMBDA prov : ~Disabled(prov.name)),
                            ProviderConfigs)

\* the implemented pipeline: the sorted whole snapshot, read without the disabled providers
ImplementedOrder == SelectSeq(sortedProviders, LAMBDA prov : ~Disabled(prov.name))

\* the providers the register loop has reached: those with a Configure or Register call
Reached ==
    LET sel == SelectSeq(calls, LAMBDA c :
                   \/ c.op = "Register" /\ ~CalledBefore("Configure", c.name, Len(calls) + 1)
                   \/ c.op = "Configure")
    IN [i \in 1..Len(sel) |-> sel[i].name]

\* C29: sorting the whole snapshot and skipping disabled providers while iterating gives
\* the same sequence of Configure/Register/Boot calls and the same result as filtering
\* to the enabled providers first and sorting that subset: both visit the same providers
\* in the same order, and the calls made follow that order.
C29_SortThenSkipEqualsFilterThenSort ==
    pc # "idle" =>
        LET specified == SpecifiedOrder
            names == [i \in 1..Len(specified) |-> specified[i].name]
        IN
        /\ ImplementedOrder = specified
        /\ IsPrefix(Reached, names)
        /\ IsPrefix(NamesOf("Boot"), names)
        /\ pc \in {"boot", "returned"} /\ ~(ReturnedError /\ result.stage # "boot")
              => NamesOf("Register") = names
        /\ ReturnedNil => NamesOf("Boot") = names

\* a finished load where the sort moved a provider forward and the disabled provider
\* sorts between the two enabled ones
C29_Witness ==
    /\ ReturnedNil
    /\ Len(sortedProviders) = 3
    /\ sortedProviders # providers
    /\ Disabled(sortedProviders[2].name)
    /\ AssignedPriority(sortedProviders[1].name) < AssignedPriority(sortedProviders[3].name)
    /\ NamesOf("Boot") = <<sortedProviders[1].name, sortedProviders[3].name>>

\* C23: LoadProviders is deterministic and keeps no state between calls: a second run on
\* the same loader, with the same registry, flags, payloads and callback results, issues
\* the same sequence of Configure/Register/Boot calls and returns the same result; in
\* particular it invokes Register and Boot on every enabled provider again.
C23_Deterministic ==
    reloaded =>
        /\ IsPrefix(calls, prevCalls)
        /\ pc = "returned" => calls = prevCalls /\ result = prevResult
        /\ ReturnedNil =>
             \A k \in 1..Len(globalProviders) :
                 ~Disabled(globalProviders[k].name) =>
                     /\ CallCount("Register", globalProviders[k].name) = 1
                     /\ CallCount("Boot", globalProviders[k].name) = 1

\* a second load has repeated a first one that configured a provider, skipped an optional
\* Boot failure and returned nil
C23_Witness ==
    /\ reloaded
    /\ ReturnedNil
    /\ Len(NamesOf("Boot")) = 3
    /\ Len(NamesOf("Configure")) = 1
    /\ \E i \in CallIdx : OptionalBootFailure(i)
    /\ calls = prevCalls

\* C27: the optional capability softens Boot failures only: a failed Configure or
\* Register makes LoadProviders return an error whatever the provider's IsOptional()
\* says, and IsOptional() is asked only directly after a failed Boot of that provider.
C27_OptionalOnlyForBoot ==
    /\ \A i \in CallIdx :
         calls[i].op = "IsOptional" =>
            /\ i > 1
            /\ calls[i - 1].op = "Boot" /\ calls[i - 1].name = calls[i].name
            /\ calls[i - 1].ret # "nil"
    /\ \A i \in CallIdx :
         calls[i].op \in {"Configure", "Register"} /\ calls[i].ret # "nil" =>
            /\ i = Len(calls)
            /\ ReturnedError /\ result.name = calls[i].name

\* Register failed on a provider whose IsOptional() returns true, after another
\* provider had been registered: the load returned the error and asked nobody
C27_Witness ==
    /\ ReturnedError /\ result.stage = "register"
    /\ optionalOf[result.name] = "true"
    /\ Len(NamesOf("Register")) >= 2
    /\ NamesOf("IsOptional") = << >>

\* C30: LoadProviders works on a snapshot of the registry taken when it starts: a provider
\* added with RegisterGlobalProvider while the load is running receives no Configure,
\* Register or Boot call in that run.
C30_Snapshot ==
    \A i \in CallIdx, k \in 1..Len(registerArgs) : calls[i].name # registerArgs[k].name

\* a load over one provider returned nil; two providers were added while it ran, one
\* before the register loop ended, and are in the registry
C30_Witness ==
    /\ ReturnedNil
    /\ Len(registerArgs) = 2
    /\ Len(globalProviders) = 3
    /\ Len(providers) = 1
    /\ NamesOf("Boot") = <<globalProviders[1].name>>

----------------------------------------------------------------------------
(* Loads whose callbacks change the loader's maps *)

\* the flag of name allowed it to load when LoadProviders was called
EnabledAtStart(name) == name \notin DOMAIN startEnabled \/ startEnabled[name] = TRUE

\* the register loop ran to its end
RegisterLoopDone == pc \in {"boot", "returned"} /\ ~(ReturnedError /\ result.stage # "boot")

StartPriority(prov) ==
    IF /\ prov.name \in DOMAIN startConfigs
       /\ "priority" \in DOMAIN startConfigs[prov.name].m
       /\ startConfigs[prov.name].m["priority"].type = "int"
    THEN startConfigs[prov.name].m["priority"].val
    ELSE IF "Priority" \in prov.caps THEN prov.priority
    ELSE 100

\* the calls of op follow the order fixed when LoadProviders was called
StartOrdered(op) ==
    \A i, j \in CallIdx :
        i < j /\ calls[i].op = op /\ calls[j].op = op =>
            LET a == ProviderNamed(calls[i].name)
                b == ProviderNamed(calls[j].name)
            IN \/ StartPriority(a) < StartPriority(b)
               \/ /\ StartPriority(a) = StartPriority(b)
                  /\ RegistryPos(a.name) < RegistryPos(b.name)

\* C32: the order of the Register and Boot calls of a run is the one resolved from the
\* payloads stored when LoadProviders was called, whatever callbacks store during the
\* load, and the boot loop boots every provider registered in phase 1, in that order,
\* without looking at the enable flags again.
C32_OrderFixedBeforeCallbacks ==
    pc # "idle" =>
        /\ StartOrdered("Register")
        /\ StartOrdered("Boot")
        /\ RegisterLoopDone => IsPrefix(NamesOf("Boot"), NamesOf("Register"))
        /\ ReturnedNil => NamesOf("Boot") = NamesOf("Register")

\* a load returned nil after booting three providers in the order fixed at the call,
\* although a callback stored a priority that puts a later provider before an earlier one
C32_Witness ==
    /\ ReturnedNil
    /\ Len(NamesOf("Boot")) = 3
    /\ startConfigs # ProviderConfigs
    /\ \E i, j \in CallIdx :
          /\ i < j /\ calls[i].op = "Boot" /\ calls[j].op = "Boot"
          /\ C4_Priority(ProviderNamed(calls[i].name)) > C4_Priority(ProviderNamed(calls[j].name))

\* a provider enabled when LoadProviders was called, disabled by a callback after its
\* Register and booted all the same
C32_BootedThoughDisabled ==
    /\ ReturnedNil
    /\ \E i \in CallIdx :
          /\ calls[i].op = "Boot"
          /\ Disabled(calls[i].name)
          /\ EnabledAtStart(calls[i].name)

----------------------------------------------------------------------------
(* The registry over the life of the process *)

\* C33: the registry only grows: whatever step is taken (a registration, accepted or
\* panicking, GetRegisteredProviders, a setter, any step of a load, aborting or not),
\* the registry before the step is a prefix of the registry after it.
C33_RegistryOnlyGrows == [][IsPrefix(globalProviders, globalProviders')]_vars

\* a load that sorted two providers into another order aborted; afterwards a third
\* provider was registered and GetRegisteredProviders returned the three in registration
\* order
C33_Witness ==
    /\ ReturnedError
    /\ storeCalls = MaxStoreCalls
    /\ Len(providers) = 2
    /\ sortedProviders # providers
    /\ Len(globalProviders) = 3
    /\ IsPrefix(providers, globalProviders)
    /\ returned.elems = globalProviders

----------------------------------------------------------------------------
(* What a load leaves alone *)

\* C34: no step of LoadProviders writes to the loader's maps: while the load runs and
\* after it has returned, nil or an error, EnabledProviders and ProviderConfigs are what
\* they were when LoadProviders was called.
C34_LoadLeavesMapsUnchanged ==
    pc # "idle" => EnabledProviders = startEnabled /\ ProviderConfigs = startConfigs

\* a load that handed a stored payload to Configure has returned an error, and the
\* payload is still stored
C34_Witness ==
    /\ ReturnedError
    /\ \E i \in CallIdx :
          /\ calls[i].op = "Configure"
          /\ calls[i].name \in DOMAIN ProviderConfigs
          /\ calls[i].arg = ProviderConfigs[calls[i].name]

\* a load that handed a stored payload to Configure has returned nil, and the payload is
\* still stored
C34_ReturnedNilWithPayload ==
    /\ ReturnedNil
    /\ \E i \in CallIdx :
          /\ calls[i].op = "Configure"
          /\ calls[i].name \in DOMAIN ProviderConfigs
          /\ calls[i].arg = ProviderConfigs[calls[i].name]

----------------------------------------------------------------------------
(* Two loaders *)

\* what the first loader's own setter calls say about name and prov
OwnDisabled(name) == lastEnabled[name] = "false"
OwnPriority(prov) ==
    IF /\ lastConfig[prov.name].set
       /\ "priority" \in DOMAIN lastConfig[prov.name].value.m
       /\ lastConfig[prov.name].value.m["priority"].type = "int"
    THEN lastConfig[prov.name].value.m["priority"].val
    ELSE IF "Priority" \in prov.caps THEN prov.priority
    ELSE 100

\* C35: loader state is per instance: whatever is stored through the second loader's
\* setters, the first loader's IsProviderEnabled and GetProviderConfig answer from the
\* first loader's own setter calls alone, and its LoadProviders loads the providers its
\* own flags allow, in the order its own payloads give.
C35_PerLoaderState ==
    /\ \A n \in Names :
          /\ IsProviderEnabled(EnabledProviders, n) = ~OwnDisabled(n)
          /\ GetProviderConfig(ProviderConfigs, n) =
                IF lastConfig[n].set THEN lastConfig[n].value ELSE NilMap
    /\ pc # "idle" =>
          /\ \A i \in CallIdx : ~OwnDisabled(calls[i].name)
          /\ \A i, j \in CallIdx :
                i < j /\ calls[i].op = calls[j].op /\ calls[i].op \in {"Register", "Boot"} =>
                    LET a == ProviderNamed(calls[i].name)
                        b == ProviderNamed(calls[j].name)
                    IN \/ OwnPriority(a) < OwnPriority(b)
                       \/ /\ OwnPriority(a) = OwnPriority(b)
                          /\ RegistryPos(a.name) < RegistryPos(b.name)
          /\ RegisterLoopDone =>
                \A k \in 1..Len(providers) :
                    ~OwnDisabled(providers[k].name)
                        => \E i \in CallIdx : /\ calls[i].op = "Register"
                                              /\ calls[i].name = providers[k].name

\* the first loader disabled one provider and booted the two others; the second loader
\* has one of those two disabled, and the two loaders answer differently for both names
C35_Witness ==
    /\ ReturnedNil
    /\ Len(providers) = 3
    /\ Len(NamesOf("Boot")) = 2
    /\ \E i \in CallIdx :
          /\ calls[i].op = "Boot"
          /\ ~IsProviderEnabled(otherEnabled, calls[i].name)
          /\ IsProviderEnabled(EnabledProviders, calls[i].name)
    /\ \E n \in Names :
          /\ ~IsProviderEnabled(EnabledProviders, n)
          /\ IsProviderEnabled(otherEnabled, n)

----------------------------------------------------------------------------
(* Two goroutines registering *)

\* the two calls were in progress at the same time
Overlapped == \E t \in ThreadIds : threads[t].overlap

\* goroutine t returned from RegisterGlobalProvider without a panic
Returned(t) == threads[t].at = "done"

InRegistry(prov) == \E i \in 1..Len(globalProviders) : globalProviders[i] = prov

\* C36 as stated: whatever the interleaving of two RegisterGlobalProvider calls, no two
\* entries of the registry share a Name(), and when both calls returned and their
\* providers have different names, both providers are in the registry.
C36_Original ==
    /\ DistinctNames(globalProviders)
    /\ Returned(1) /\ Returned(2) /\ threads[1].arg.name # threads[2].arg.name
          => InRegistry(threads[1].arg) /\ InRegistry(threads[2].arg)

\* C36 as the code has it: the registry invariants hold for calls that are not in
\* progress at the same time: then no two entries share a Name(), every call that
\* returned has its provider in the registry, and a call that panicked was passed a name
\* the registry holds.
C36_SequentialCallsOnly ==
    ~Overlapped =>
        /\ DistinctNames(globalProviders)
        /\ \A t \in ThreadIds :
              /\ Returned(t) => InRegistry(threads[t].arg)
              /\ threads[t].at = "panic" =>
                    \E i \in 1..Len(globalProviders) :
                        globalProviders[i].name = threads[t].arg.name

\* the two goroutines registered one after the other on a registry of one: both
\* returned and the registry holds the three providers
C36_Witness ==
    /\ ~Overlapped
    /\ Returned(1) /\ Returned(2)
    /\ Len(globalProviders) = 3
    /\ InRegistry(threads[1].arg) /\ InRegistry(threads[2].arg)

\* two calls at the same time, both returned: the registry holds the same name twice
C36_DuplicateReached ==
    /\ Returned(1) /\ Returned(2)
    /\ threads[1].arg.name = threads[2].arg.name
    /\ InRegistry(threads[1].arg) /\ InRegistry(threads[2].arg)
    /\ ~DistinctNames(globalProviders)

\* two calls at the same time with different names, both returned: one provider is not
\* in the registry
C36_LostReached ==
    /\ Returned(1) /\ Returned(2)
    /\ threads[1].arg.name # threads[2].arg.name
    /\ ~InRegistry(threads[1].arg)
    /\ InRegistry(threads[2].arg)

----------------------------------------------------------------------------
(* Termination *)

\* each loop has visited every provider at most once: no provider has the same
\* callback invoked twice, and the loop index is at most one past the slice it ranges over
OnePassPerPhase ==
    /\ \A i, j \in CallIdx :
          i < j /\ calls[i].op = calls[j].op /\ calls[i].op \in LifecycleOps
              => calls[i].name # calls[j].name
    /\ pc = "register" => idx <= Len(sortedProviders) + 1
    /\ pc = "boot" => idx <= Len(registeredProviders) + 1

\* C37: a LoadProviders call whose callbacks all return does return, nil or an error,
\* whatever the registry holds, and each of its two loops is one pass over the providers.
C37_Terminates ==
    /\ (pc \in {"register", "boot"}) ~> (pc = "returned" /\ (ReturnedNil \/ ReturnedError))
    /\ []OnePassPerPhase

\* a load over three providers went through both loops to their ends and returned nil
C37_Witness ==
    /\ ReturnedNil
    /\ Len(sortedProviders) = 3
    /\ Len(registeredProviders) = 3
    /\ idx = Len(registeredProviders) + 1
    /\ Len(calls) >= 2 * Len(sortedProviders)

----------------------------------------------------------------------------
(* sortProvidersByPriority *)

\* C38: what sortProvidersByPriority returns (sortedProviders) is a permutation of the
\* slice it was passed: the same length, and every provider of the input at exactly one
\* position; it is non-decreasing in resolved priority; and the slice it was passed
\* (providers) still holds the providers in the order they were registered in.
C38_SortedPermutation ==
    pc # "idle" =>
        /\ Len(sortedProviders) = Len(registerArgs)
        /\ \A k \in 1..Len(registerArgs) :
              \E i \in 1..Len(sortedProviders) :
                  /\ sortedProviders[i] = registerArgs[k]
                  /\ \A j \in 1..Len(sortedProviders) :
                        sortedProviders[j] = registerArgs[k] => j = i
        /\ \A i, j \in 1..Len(sortedProviders) :
              i < j => C4_Priority(sortedProviders[i]) <= C4_Priority(sortedProviders[j])
        /\ providers = registerArgs

\* three providers registered in the reverse of their priority order, two of the
\* priorities coming from stored payloads: the result is the input reversed
C38_Witness ==
    /\ pc = "register"
    /\ Len(providers) = 3
    /\ storeCalls >= 2
    /\ C4_Priority(providers[1]) > C4_Priority(providers[2])
    /\ C4_Priority(providers[2]) > C4_Priority(providers[3])
    /\ sortedProviders = <<providers[3], providers[2], providers[1]>>

====
